---- MODULE Spec2Model ----
(***************************************************************************)
(* A model of foodTwitter/app.py: the five tables of the recipe database   *)
(* and the Flask route handlers that create, list, update and delete       *)
(* recipes.  Spec runs the handlers one request at a time; ConcSpec runs   *)
(* them as interleaved database sessions over one SQLite file.             *)
(***************************************************************************)
EXTENDS Integers, Sequences, FiniteSets, TLC

\* ------------------------------------------------------------------ bounds
\* Recipe rowids are kept within 1..MaxRecipeId (create is disabled beyond).
MaxRecipeId == 2
\* The clock (CURRENT_TIMESTAMP, in whole seconds) runs over 0..MaxClock.
MaxClock == 1
\* Number of concurrent request threads of ConcSpec.
MaxProcs == 2

VARIABLES
    Recipe,           \* recipe_id -> row of table recipe
    Post,             \* post_id -> row of table post
    Ingredient,       \* ingredient_id -> row of table ingredient
    NutritionDetail,  \* detail_id -> row of table nutrition_detail
    User,             \* user_id -> row of table user
    now,              \* the database's CURRENT_TIMESTAMP, in seconds
    debug,            \* whether the application runs in Flask's debug mode
    pending,          \* Spec: the request received and not yet answered
    handled,          \* Spec: the request the last response answers
    resp,             \* Spec: the last response
    pc,               \* ConcSpec: where each request thread stands
    sess,             \* ConcSpec: each thread's request and session (its
                      \* uncommitted view of the tables)
    writer            \* ConcSpec: the thread holding SQLite's write lock

tables == <<Recipe, Post, Ingredient, NutritionDetail, User>>
seqvars == <<pending, handled, resp>>
concvars == <<pc, sess, writer>>
vars == <<Recipe, Post, Ingredient, NutritionDetail, User, now, debug,
          pending, handled, resp, pc, sess, writer>>

\* The committed content of the database file.
DB ==
    [Recipe |-> Recipe, Post |-> Post, Ingredient |-> Ingredient,
     NutritionDetail |-> NutritionDetail, User |-> User]

\* ------------------------------------------------------------ column values
\* A nullable column holds NULL or one value: {} or {v}.
NULL == {}

\* Text is a sequence of characters.  cooking_time arrives as form text.
Digit ==
    [c \in {"0", "1", "2", "3", "4", "5", "6", "7", "8", "9"} |->
        CASE c = "0" -> 0 [] c = "1" -> 1 [] c = "2" -> 2 [] c = "3" -> 3
          [] c = "4" -> 4 [] c = "5" -> 5 [] c = "6" -> 6 [] c = "7" -> 7
          [] c = "8" -> 8 [] c = "9" -> 9]

DigitChar == <<"0", "1", "2", "3", "4", "5", "6", "7", "8", "9">>

RECURSIVE LTrim(_)
LTrim(s) == IF s # <<>> /\ Head(s) = " " THEN LTrim(Tail(s)) ELSE s

RECURSIVE RTrim(_)
RTrim(s) ==
    IF s # <<>> /\ s[Len(s)] = " " THEN RTrim(SubSeq(s, 1, Len(s) - 1)) ELSE s

\* The text without its sign, and the sign.
Unsigned(s) == IF s # <<>> /\ Head(s) \in {"+", "-"} THEN Tail(s) ELSE s
Sign(s) == IF s # <<>> /\ Head(s) = "-" THEN -1 ELSE 1

AllDigits(s) == s # <<>> /\ \A i \in 1..Len(s) : s[i] \in DOMAIN Digit

RECURSIVE DigitsValue(_)
DigitsValue(s) ==
    IF s = <<>> THEN 0
    ELSE 10 * DigitsValue(SubSeq(s, 1, Len(s) - 1)) + Digit[s[Len(s)]]

\* SQLite: text bound to a column of INTEGER affinity is stored as an integer
\* when it is a well-formed integer literal (spaces around it and a sign
\* allowed) and as the text itself when it is not numeric.  Real literals are
\* outside the texts the model submits.
IsIntegerLiteral(s) == AllDigits(Unsigned(RTrim(LTrim(s))))

IntegerAffinity(s) ==
    IF IsIntegerLiteral(s)
    THEN [type |-> "integer",
          int |-> Sign(RTrim(LTrim(s))) * DigitsValue(Unsigned(RTrim(LTrim(s))))]
    ELSE [type |-> "text", text |-> s]

\* Python's str() of a non-negative / negative int.
RECURSIVE NatToText(_)
NatToText(n) ==
    IF n < 10 THEN <<DigitChar[n + 1]>>
    ELSE NatToText(n \div 10) \o <<DigitChar[(n % 10) + 1]>>

IntToText(n) == IF n < 0 THEN <<"-">> \o NatToText(-n) ELSE NatToText(n)

\* The form text a stored cooking_time is submitted as (the test client's
\* encoding of a form value: str() of an int, a str as it is).
FormText(v) == IF v.type = "integer" THEN IntToText(v.int) ELSE v.text

\* datetime.isoformat() of a timestamp.
isoformat(t) == <<"T", t>>

\* ------------------------------------------------------------------- forms
FormKeys == {"recipe_name", "ingredients", "instructions", "cooking_time"}

\* test_create_recipe's form.
Form1 ==
    [recipe_name |-> "Test Recipe",
     ingredients |-> "Ingredient 1, Ingredient 2",
     instructions |-> "Test instructions",
     cooking_time |-> <<"3", "0">>]

\* test_update_recipe's form, its cooking_time typed with a leading zero.
Form2 ==
    [recipe_name |-> "Updated Test Recipe",
     ingredients |-> "Updated Ingredient 1, Updated Ingredient 2",
     instructions |-> "Updated instructions",
     cooking_time |-> <<"0", "4", "5">>]

\* A form whose cooking_time is no number.
Form3 ==
    [recipe_name |-> "Test Recipe",
     ingredients |-> "Ingredient 1, Ingredient 2",
     instructions |-> "Updated instructions",
     cooking_time |-> <<"s", "o", "o", "n">>]

CompleteForms == {Form1, Form2, Form3}

\* Form2 with one key left out.
Without(f, k) == [x \in (DOMAIN f) \ {k} |-> f[x]]
IncompleteForms == {Without(Form2, k) : k \in FormKeys}

NoForm == <<>>

\* ---------------------------------------------------------------- requests
\* A request: its method, its path split at "/", its form.
Req(m, p, f) == [method |-> m, path |-> p, form |-> f]

NoRequest == Req("", <<>>, NoForm)

RecipeIds == 1..MaxRecipeId

Requests ==
    {Req("GET", <<>>, NoForm), Req("GET", <<"recipes">>, NoForm),
     Req("GET", <<"all_recipes">>, NoForm)}
    \cup {Req("POST", <<"recipes">>, f) : f \in CompleteForms \cup IncompleteForms}
    \cup {Req("GET", <<"recipes", i>>, NoForm) : i \in RecipeIds}
    \cup {Req("POST", <<"recipes", i>>, f) :
            i \in RecipeIds, f \in CompleteForms \cup IncompleteForms}
    \cup {Req("POST", <<"recipes", i, "delete">>, NoForm) : i \in RecipeIds}

\* ----------------------------------------------------------------- routing
IntConverter == "<int:recipe_id>"

\* A mutant of Routes: /recipes also takes GET.
Routes_GetRecipes ==
    {[rule |-> <<>>, methods |-> {"GET"}, endpoint |-> "index"],
     [rule |-> <<"recipes">>, methods |-> {"GET", "POST"}, endpoint |-> "create_recipe"],
     [rule |-> <<"all_recipes">>, methods |-> {"GET"}, endpoint |-> "get_recipes"],
     [rule |-> <<"recipes", IntConverter>>, methods |-> {"GET", "POST"},
      endpoint |-> "update_recipe"],
     [rule |-> <<"recipes", IntConverter, "delete">>, methods |-> {"POST"},
      endpoint |-> "delete_recipe"]}

\* The url rules the @app.route decorators register.
Routes ==
    {[rule |-> <<>>, methods |-> {"GET"}, endpoint |-> "index"],
     [rule |-> <<"recipes">>, methods |-> {"POST"}, endpoint |-> "create_recipe"],
     [rule |-> <<"all_recipes">>, methods |-> {"GET"}, endpoint |-> "get_recipes"],
     [rule |-> <<"recipes", IntConverter>>, methods |-> {"GET", "POST"},
      endpoint |-> "update_recipe"],
     [rule |-> <<"recipes", IntConverter, "delete">>, methods |-> {"POST"},
      endpoint |-> "delete_recipe"]}

Matches(rule, path) ==
    /\ Len(rule) = Len(path)
    /\ \A i \in 1..Len(rule) :
          IF rule[i] = IntConverter THEN path[i] \in Nat ELSE path[i] = rule[i]

\* The endpoint a request is dispatched to; a path some rule matches, with a
\* method none of its rules allows, is answered 405; an unknown path, 404.
Dispatch(req) ==
    LET hit == {r \in Routes : Matches(r.rule, req.path)}
        ok == {r \in hit : req.method \in r.methods}
    IN  IF ok # {} THEN (CHOOSE r \in ok : TRUE).endpoint
        ELSE IF hit # {} THEN "405" ELSE "404"

url_for(endpoint) == (CHOOSE r \in Routes : r.endpoint = endpoint).rule

\* --------------------------------------------------------------- responses
NoBody == [none |-> TRUE]
NoResponse == [status |-> 0, location |-> NULL, mimetype |-> "", body |-> NoBody]

redirect(path) ==
    [status |-> 302, location |-> {path}, mimetype |-> "text/html", body |-> NoBody]

jsonify(obj, status) ==
    [status |-> status, location |-> NULL, mimetype |-> "application/json",
     body |-> obj]

render_template(name, context) ==
    [status |-> 200, location |-> NULL, mimetype |-> "text/html",
     body |-> [template |-> name, context |-> context]]

RecipeNotFound == jsonify([error |-> "Recipe not found"], 404)

MethodNotAllowed ==
    [status |-> 405, location |-> NULL, mimetype |-> "text/html", body |-> NoBody]

\* An exception nothing handles: the session is discarded and the answer is
\* a server error page.
InternalServerError ==
    [status |-> 500, location |-> NULL, mimetype |-> "text/html", body |-> NoBody]

BadRequest ==
    [status |-> 400, location |-> NULL, mimetype |-> "text/html", body |-> NoBody]

\* request.form[key] of an absent key raises BadRequestKeyError, an
\* HTTPException.  In debug mode (app.run(debug=True)) Flask traps it and it
\* propagates as an exception nothing handles; out of debug mode (the test
\* client of test_app.py) Flask answers it as 400 Bad Request.
MissingKey == IF debug THEN {InternalServerError} ELSE {BadRequest}

\* The answer to a path no rule matches.
NotFoundPage ==
    [status |-> 404, location |-> NULL, mimetype |-> "text/html", body |-> NoBody]

\* An outcome of a handler: the database it leaves committed, and its answer.
Out(db, r) == [db |-> db, resp |-> r]

\* ------------------------------------------------------------------ models
\* A mutant of serialize: ingredients and instructions change places.
serialize_Swapped(recipe) ==
    [recipe_id |-> recipe.recipe_id,
     recipe_name |-> recipe.recipe_name,
     ingredients |-> recipe.instructions,
     instructions |-> recipe.ingredients,
     cooking_time |-> recipe.cooking_time,
     created_at |-> isoformat(recipe.created_at)]

serialize(recipe) ==
    [recipe_id |-> recipe.recipe_id,
     recipe_name |-> recipe.recipe_name,
     ingredients |-> recipe.ingredients,
     instructions |-> recipe.instructions,
     cooking_time |-> recipe.cooking_time,
     created_at |-> isoformat(recipe.created_at)]

Max(S) == CHOOSE x \in S : \A y \in S : y <= x

\* A mutant of NextRowid: the largest rowid is given again.
NextRowid_Reused(table) == IF DOMAIN table = {} THEN 1 ELSE Max(DOMAIN table)

\* The rowid SQLite gives a row inserted without one (INTEGER PRIMARY KEY,
\* no AUTOINCREMENT): one more than the largest in the table.
NextRowid(table) == IF DOMAIN table = {} THEN 1 ELSE Max(DOMAIN table) + 1

\* The row INSERT stores for Recipe(recipe_name=..., ...): the column
\* affinities applied, created_at from its server default.
NewRecipe(id, form, t) ==
    [recipe_id |-> id,
     recipe_name |-> form.recipe_name,
     ingredients |-> form.ingredients,
     instructions |-> form.instructions,
     cooking_time |-> IntegerAffinity(form.cooking_time),
     created_at |-> t]

\* ---------------------------------------------------------------- handlers
index(db) == {Out(db, render_template("index.html", NoBody))}

\* data[key] raises while the arguments of Recipe(...) are evaluated: no
\* object is made and nothing is added to the session.
create_recipe(db, form, t) ==
    IF ~(FormKeys \subseteq DOMAIN form)
    THEN {Out(db, r) : r \in MissingKey}
    ELSE LET id == NextRowid(db.Recipe)
         IN  {Out([db EXCEPT !.Recipe =
                       [i \in DOMAIN db.Recipe \cup {id} |->
                           IF i = id THEN NewRecipe(id, form, t)
                           ELSE db.Recipe[i]]],
                  redirect(url_for("get_recipes")))}

\* The orders ORDER BY created_at DESC may return the rows in: rows of equal
\* created_at come in an order the query does not fix.
OrderByCreatedAtDesc(table) ==
    {s \in [1..Cardinality(DOMAIN table) -> DOMAIN table] :
        /\ \A i, j \in DOMAIN s : i # j => s[i] # s[j]
        /\ \A i, j \in DOMAIN s :
              i < j => table[s[i]].created_at >= table[s[j]].created_at}

get_recipes(db) ==
    {Out(db, render_template("all_recipes.html",
                             [recipes |-> [i \in DOMAIN s |-> serialize(db.Recipe[s[i]])]]))
        : s \in OrderByCreatedAtDesc(db.Recipe)}

\* A mutant of AssignFields: instructions is not assigned.
AssignFields_SkipInstructions(recipe, form) ==
    [recipe EXCEPT !.recipe_name = form.recipe_name,
                   !.ingredients = form.ingredients,
                   !.cooking_time = IntegerAffinity(form.cooking_time)]

\* The four assignments of update_recipe, as the UPDATE at commit stores them.
AssignFields(recipe, form) ==
    [recipe EXCEPT !.recipe_name = form.recipe_name,
                   !.ingredients = form.ingredients,
                   !.instructions = form.instructions,
                   !.cooking_time = IntegerAffinity(form.cooking_time)]

\* The order update_recipe assigns the attributes in.
AssignOrder == <<"recipe_name", "ingredients", "instructions", "cooking_time">>

\* The assignments that run before data[key] raises: those ahead of the
\* first key the form lacks.
AssignedKeys(form) ==
    {AssignOrder[i] : i \in {j \in 1..Len(AssignOrder) :
                                \A k \in 1..j : AssignOrder[k] \in DOMAIN form}}

\* The loaded object once update_recipe has stopped at a missing key: the
\* attributes assigned so far are pending in the session, the others are as
\* loaded.
PartialAssign(recipe, form) ==
    [k \in DOMAIN recipe |->
        IF k \in AssignedKeys(form)
        THEN IF k = "cooking_time" THEN IntegerAffinity(form[k]) ELSE form[k]
        ELSE recipe[k]]

\* A mutant of Rollback: the pending attributes are flushed and committed.
Rollback_Flush(db, recipe_id, pending_row) ==
    [db EXCEPT !.Recipe[recipe_id] = pending_row]

\* The request ends by an exception before db.session.commit(): the session
\* SQLAlchemy(app) scopes to the request is removed, no UPDATE was emitted
\* (nothing queries after the assignments, so nothing autoflushes) and the
\* pending attributes are lost with the session.
Rollback(db, recipe_id, pending_row) == db

\* A mutant of update_recipe: the form is read before the recipe is loaded.
update_recipe_FormFirst(db, method, recipe_id, form) ==
    IF method = "GET"
    THEN IF recipe_id \notin DOMAIN db.Recipe
         THEN {Out(db, RecipeNotFound)}
         ELSE {Out(db, render_template("update_recipe.html",
                                       [recipe |-> serialize(db.Recipe[recipe_id])]))}
    ELSE IF ~(FormKeys \subseteq DOMAIN form)
         THEN {Out(db, r) : r \in MissingKey}
         ELSE IF recipe_id \notin DOMAIN db.Recipe
         THEN {Out(db, RecipeNotFound)}
         ELSE {Out([db EXCEPT !.Recipe[recipe_id] = AssignFields(@, form)],
                   redirect(url_for("get_recipes")))}

update_recipe(db, method, recipe_id, form) ==
    IF method = "GET"
    THEN IF recipe_id \notin DOMAIN db.Recipe
         THEN {Out(db, RecipeNotFound)}
         ELSE {Out(db, render_template("update_recipe.html",
                                       [recipe |-> serialize(db.Recipe[recipe_id])]))}
    ELSE IF recipe_id \notin DOMAIN db.Recipe
         THEN {Out(db, RecipeNotFound)}
         ELSE IF ~(FormKeys \subseteq DOMAIN form)
         THEN {Out(Rollback(db, recipe_id,
                            PartialAssign(db.Recipe[recipe_id], form)), r)
                  : r \in MissingKey}
         ELSE {Out([db EXCEPT !.Recipe[recipe_id] = AssignFields(@, form)],
                   redirect(url_for("get_recipes")))}

\* A mutant of BulkDeleteIngredients: the filter is lost.
BulkDeleteIngredients_All(db, recipe_id) == [db EXCEPT !.Ingredient = <<>>]

\* Ingredient.query.filter_by(recipe_id=recipe_id).delete(): one DELETE
\* statement, no ORM cascade, foreign keys not enforced by SQLite.
BulkDeleteIngredients(db, recipe_id) ==
    [db EXCEPT !.Ingredient =
        [i \in {j \in DOMAIN db.Ingredient : db.Ingredient[j].recipe_id # recipe_id}
            |-> db.Ingredient[i]]]

\* db.session.delete(recipe), as flushed at commit: the rows the recipe's
\* back-references load (recipe_ingredients, post) get recipe_id NULL, then
\* the recipe row is deleted.  Ingredient.recipe_id is NOT NULL: a row still
\* referencing the recipe makes the flush fail.
FlushFails(db, recipe_id) ==
    \E i \in DOMAIN db.Ingredient : db.Ingredient[i].recipe_id = recipe_id

\* A mutant of SessionDelete: the post of the recipe is left as it is.
SessionDelete_KeepPost(db, recipe_id) ==
    [db EXCEPT
        !.Recipe = [i \in (DOMAIN db.Recipe) \ {recipe_id} |-> db.Recipe[i]]]

SessionDelete(db, recipe_id) ==
    [db EXCEPT
        !.Post = [p \in DOMAIN db.Post |->
                    IF db.Post[p].recipe_id = {recipe_id}
                    THEN [db.Post[p] EXCEPT !.recipe_id = NULL]
                    ELSE db.Post[p]],
        !.Recipe = [i \in (DOMAIN db.Recipe) \ {recipe_id} |-> db.Recipe[i]]]

\* A mutant of delete_recipe: the recipe row is deleted by a bulk DELETE of
\* its own and the ingredient rows are left.
delete_recipe_RowOnly(db, recipe_id) ==
    IF recipe_id \notin DOMAIN db.Recipe
    THEN {Out(db, RecipeNotFound)}
    ELSE {Out([db EXCEPT !.Recipe =
                   [i \in (DOMAIN db.Recipe) \ {recipe_id} |-> db.Recipe[i]]],
              redirect(url_for("get_recipes")))}

delete_recipe(db, recipe_id) ==
    IF recipe_id \notin DOMAIN db.Recipe
    THEN {Out(db, RecipeNotFound)}
    ELSE LET d == BulkDeleteIngredients(db, recipe_id)
         IN  IF FlushFails(d, recipe_id)
             THEN {Out(db, InternalServerError)}
             ELSE {Out(SessionDelete(d, recipe_id), redirect(url_for("get_recipes")))}

\* Every outcome the application has for a request.
Handle(db, req, t) ==
    LET e == Dispatch(req)
    IN  CASE e = "index" -> index(db)
          [] e = "create_recipe" -> create_recipe(db, req.form, t)
          [] e = "get_recipes" -> get_recipes(db)
          [] e = "update_recipe" -> update_recipe(db, req.method, req.path[2], req.form)
          [] e = "delete_recipe" -> delete_recipe(db, req.path[2])
          [] e = "405" -> {Out(db, MethodNotAllowed)}
          [] OTHER -> {Out(db, NotFoundPage)}

\* ------------------------------------------------------------ initial rows
\* The database file outlives the server: it starts with the first n recipes
\* of an earlier run, created one per second before the clock's second 0, and
\* the rows of the other tables that refer to them (no route inserts into
\* post, ingredient, nutrition_detail or user).
SeedUser == (1 :> [user_id |-> 1, username |-> "cook"])

SeedIngredient ==
    (1 :> [ingredient_id |-> 1, food_id |-> 11, recipe_id |-> 1]) @@
    (2 :> [ingredient_id |-> 2, food_id |-> 12, recipe_id |-> 1]) @@
    (3 :> [ingredient_id |-> 3, food_id |-> 11, recipe_id |-> 2])

SeedNutritionDetail ==
    (1 :> [detail_id |-> 1, ingredient_id |-> 1, carbs |-> 5, protein |-> 2, fat |-> 1]) @@
    (2 :> [detail_id |-> 2, ingredient_id |-> 3, carbs |-> 0, protein |-> 7, fat |-> 3])

SeedPost ==
    (1 :> [post_id |-> 1, user_id |-> 1, recipe_id |-> {1},
           post_content |-> "try this", created_at |-> 0]) @@
    (2 :> [post_id |-> 2, user_id |-> 1, recipe_id |-> NULL,
           post_content |-> "hello", created_at |-> 0]) @@
    (3 :> [post_id |-> 3, user_id |-> 1, recipe_id |-> {2},
           post_content |-> "and this", created_at |-> 0])

Restrict(f, S) == [x \in S |-> f[x]]

Procs == 1..MaxProcs

Idle == [req |-> NoRequest, db |-> <<>>, removed |-> {}, dirty |-> {}]

Init ==
    \E n \in 0..MaxRecipeId :
        /\ Recipe = [i \in 1..n |-> NewRecipe(i, Form1, i - n - 1)]
        /\ Ingredient =
              Restrict(SeedIngredient,
                       {i \in DOMAIN SeedIngredient : SeedIngredient[i].recipe_id <= n})
        /\ NutritionDetail =
              Restrict(SeedNutritionDetail,
                       {d \in DOMAIN SeedNutritionDetail :
                           SeedIngredient[SeedNutritionDetail[d].ingredient_id].recipe_id <= n})
        /\ Post =
              Restrict(SeedPost,
                       {p \in DOMAIN SeedPost :
                           \A r \in SeedPost[p].recipe_id : r <= n})
        /\ User = SeedUser
        /\ now = 0
        /\ debug \in BOOLEAN
        /\ pending = NoRequest
        /\ handled = NoRequest
        /\ resp = NoResponse
        /\ pc = [p \in Procs |-> "idle"]
        /\ sess = [p \in Procs |-> Idle]
        /\ writer = NULL

\* --------------------------------------------------- one request at a time
Commit(db) ==
    /\ Recipe' = db.Recipe
    /\ Post' = db.Post
    /\ Ingredient' = db.Ingredient
    /\ NutritionDetail' = db.NutritionDetail
    /\ User' = db.User

\* The recipe table stays within the model's rowids.
WithinBounds(db) == DOMAIN db.Recipe \subseteq RecipeIds

\* A client sends a request.
Receive ==
    /\ pending = NoRequest
    /\ \E req \in Requests : pending' = req
    /\ handled' = NoRequest
    /\ resp' = NoResponse
    /\ UNCHANGED <<tables, now, debug, concvars>>

\* The application answers the pending request with one of the outcomes its
\* handler has.
Respond(outs) ==
    /\ \E out \in outs :
          /\ WithinBounds(out.db)
          /\ Commit(out.db)
          /\ resp' = out.resp
    /\ handled' = pending
    /\ pending' = NoRequest
    /\ UNCHANGED <<now, debug, concvars>>

Index ==
    /\ pending # NoRequest
    /\ Dispatch(pending) = "index"
    /\ Respond(index(DB))

CreateRecipe ==
    /\ pending # NoRequest
    /\ Dispatch(pending) = "create_recipe"
    /\ Respond(create_recipe(DB, pending.form, now))

GetRecipes ==
    /\ pending # NoRequest
    /\ Dispatch(pending) = "get_recipes"
    /\ Respond(get_recipes(DB))

UpdateRecipe ==
    /\ pending # NoRequest
    /\ Dispatch(pending) = "update_recipe"
    /\ Respond(update_recipe(DB, pending.method, pending.path[2], pending.form))

DeleteRecipe ==
    /\ pending # NoRequest
    /\ Dispatch(pending) = "delete_recipe"
    /\ Respond(delete_recipe(DB, pending.path[2]))

\* The path is routed but not with this method.
RejectMethod ==
    /\ pending # NoRequest
    /\ Dispatch(pending) = "405"
    /\ Respond({Out(DB, MethodNotAllowed)})

\* A second passes.
Tick ==
    /\ now < MaxClock
    /\ now' = now + 1
    /\ UNCHANGED <<tables, debug, seqvars, concvars>>

Next ==
    \/ Receive
    \/ Index
    \/ CreateRecipe
    \/ GetRecipes
    \/ UpdateRecipe
    \/ DeleteRecipe
    \/ RejectMethod
    \/ Tick

Spec == Init /\ [][Next]_vars

\* ------------------------------------------------------ concurrent requests
\* Each request runs in a thread of its own with a session of its own.  A
\* SELECT outside a transaction reads what is committed.  The first INSERT,
\* UPDATE or DELETE of a session begins its transaction and takes the
\* database file's write lock, which one session holds at a time; what the
\* session writes stays in its own view until COMMIT.  A thread is "idle"
\* between requests; taking a request and its first statement are one step.
ConcRequests ==
    {Req("POST", <<"recipes">>, Form1), Req("GET", <<"all_recipes">>, NoForm)}
    \cup {Req("GET", <<"recipes", i>>, NoForm) : i \in RecipeIds}
    \cup {Req("POST", <<"recipes", i>>, Form2) : i \in RecipeIds}
    \cup {Req("POST", <<"recipes", i, "delete">>, NoForm) : i \in RecipeIds}

\* Whether a handler writes to the database when all goes well.
Writes(req) ==
    \/ Dispatch(req) \in {"create_recipe", "delete_recipe"}
    \/ Dispatch(req) = "update_recipe" /\ req.method = "POST"

\* A mutant of Uncommitted: the statement is committed as it runs.
Uncommitted_Autocommit(committed, view) == view

\* What is committed once a session has run a statement without committing:
\* what was committed before, not the session's view.
Uncommitted(committed, view) == committed

\* The server app.run(debug=True) starts, its database holding MaxRecipeId
\* recipes and their rows.
ConcInit == Init /\ DOMAIN Recipe = RecipeIds /\ debug

\* Thread p ends its request (the response leaves the model); its session is
\* discarded.
Finish(p) ==
    /\ pc' = [pc EXCEPT ![p] = "idle"]
    /\ sess' = [sess EXCEPT ![p] = Idle]
    /\ UNCHANGED <<seqvars, now, debug>>

\* A handler that only reads answers from what is committed.
ReadOnly(p) ==
    /\ pc[p] = "idle"
    /\ \E req \in ConcRequests :
          /\ ~Writes(req)
          /\ \E out \in Handle(DB, req, now) : out.db = DB
    /\ Finish(p)
    /\ UNCHANGED <<tables, writer>>

\* The attributes update_recipe's assignments change on the loaded object:
\* those whose form text differs from the loaded value (an int equals no
\* text).
Dirty(loaded, form) ==
    {k \in FormKeys :
        IF k = "cooking_time"
        THEN ~(loaded[k].type = "text" /\ loaded[k].text = form[k])
        ELSE loaded[k] # form[k]}

\* update_recipe (POST) and delete_recipe load the recipe: Recipe.query.get.
\* An absent recipe ends the request with 404.
Load(p) ==
    /\ pc[p] = "idle"
    /\ \E req \in ConcRequests :
          /\ Dispatch(req) \in {"update_recipe", "delete_recipe"}
          /\ Writes(req)
          /\ IF req.path[2] \notin DOMAIN Recipe
             THEN Finish(p)
             ELSE /\ pc' = [pc EXCEPT ![p] = "loaded"]
                  /\ sess' = [sess EXCEPT
                                ![p].req = req,
                                ![p].dirty =
                                    IF Dispatch(req) = "update_recipe"
                                    THEN Dirty(Recipe[req.path[2]], req.form)
                                    ELSE {}]
                  /\ UNCHANGED <<seqvars, now, debug>>
    /\ UNCHANGED <<tables, writer>>

\* create_recipe's commit flushes the INSERT.
CreateFlush(p) ==
    /\ pc[p] = "idle"
    /\ writer = NULL
    /\ \E req \in ConcRequests :
          /\ Dispatch(req) = "create_recipe"
          /\ \E out \in create_recipe(DB, req.form, now) :
                /\ WithinBounds(out.db)
                /\ out.resp.status = 302
                /\ sess' = [sess EXCEPT ![p].req = req, ![p].db = out.db]
                /\ Commit(Uncommitted(DB, out.db))
    /\ pc' = [pc EXCEPT ![p] = "flushed"]
    /\ writer' = {p}
    /\ UNCHANGED <<seqvars, now, debug>>

\* update_recipe's commit flushes an UPDATE of the dirty attributes; with
\* none dirty there is nothing to write; the flush fails when the row is
\* gone.
UpdateFlush(p) ==
    /\ pc[p] = "loaded"
    /\ Dispatch(sess[p].req) = "update_recipe"
    /\ LET req == sess[p].req
           r == req.path[2]
       IN  IF sess[p].dirty = {}
           THEN /\ Finish(p)
                /\ UNCHANGED <<tables, writer>>
           ELSE /\ writer = NULL
                /\ IF r \notin DOMAIN Recipe
                   THEN /\ Finish(p)
                        /\ UNCHANGED <<tables, writer>>
                   ELSE /\ sess' = [sess EXCEPT ![p].db =
                                [DB EXCEPT !.Recipe[r] =
                                    [k \in DOMAIN @ |->
                                        IF k \in sess[p].dirty
                                        THEN AssignFields(@, req.form)[k]
                                        ELSE @[k]]]]
                        /\ pc' = [pc EXCEPT ![p] = "flushed"]
                        /\ writer' = {p}
                        /\ Commit(Uncommitted(DB, DB))
                        /\ UNCHANGED <<seqvars, now, debug>>

\* delete_recipe's first statement: the bulk DELETE of the ingredient rows.
DeleteIngredients(p) ==
    /\ pc[p] = "loaded"
    /\ Dispatch(sess[p].req) = "delete_recipe"
    /\ writer = NULL
    /\ LET r == sess[p].req.path[2]
           view == BulkDeleteIngredients(DB, r)
       IN  /\ sess' = [sess EXCEPT
                         ![p].db = view,
                         ![p].removed = (DOMAIN Ingredient) \ (DOMAIN view.Ingredient)]
           /\ Commit(Uncommitted(DB, view))
    /\ pc' = [pc EXCEPT ![p] = "ingredients_deleted"]
    /\ writer' = {p}
    /\ UNCHANGED <<seqvars, now, debug>>

\* delete_recipe's second statement: db.session.delete(recipe), flushed by
\* db.session.commit() inside the same transaction.
DeleteRow(p) ==
    /\ pc[p] = "ingredients_deleted"
    /\ LET r == sess[p].req.path[2]
           view == sess[p].db
       IN  IF FlushFails(view, r)
           THEN /\ Finish(p)
                /\ writer' = NULL
                /\ UNCHANGED tables
           ELSE /\ sess' = [sess EXCEPT ![p].db = SessionDelete(view, r)]
                /\ pc' = [pc EXCEPT ![p] = "flushed"]
                /\ Commit(Uncommitted(DB, SessionDelete(view, r)))
                /\ UNCHANGED <<seqvars, now, debug, writer>>

\* COMMIT: the session's view becomes the committed database.
CommitTxn(p) ==
    /\ pc[p] = "flushed"
    /\ Commit(sess[p].db)
    /\ writer' = NULL
    /\ Finish(p)

\* The write lock is held by another session for longer than the busy
\* timeout when a request comes to its first write (create_recipe's INSERT
\* for an idle thread): "database is locked", an error nothing handles.
Busy(p) ==
    /\ pc[p] \in {"idle", "loaded"}
    /\ pc[p] = "loaded" => sess[p].dirty # {} \/ Dispatch(sess[p].req) = "delete_recipe"
    /\ writer # NULL
    /\ Finish(p)
    /\ UNCHANGED <<tables, writer>>

ConcNext ==
    \E p \in Procs :
        \/ ReadOnly(p)
        \/ Load(p)
        \/ CreateFlush(p)
        \/ UpdateFlush(p)
        \/ DeleteIngredients(p)
        \/ DeleteRow(p)
        \/ CommitTxn(p)
        \/ Busy(p)

ConcSpec == ConcInit /\ [][ConcNext]_vars

\* ================================================================== claims
\* The step that answers the pending request through endpoint e.
Answers(e) ==
    /\ pending # NoRequest
    /\ handled' = pending
    /\ Dispatch(pending) = e

\* The last response answers a request of endpoint e.
Answered(e) == handled # NoRequest /\ Dispatch(handled) = e

RedirectsToList(r) == r.status = 302 /\ r.location = {<<"all_recipes">>}

GetRecipe(r) == Req("GET", <<"recipes", r>>, NoForm)

\* Decimal digits with no leading zero, no sign, no spaces.
CanonicalInteger(text) ==
    /\ text # <<>>
    /\ \A i \in 1..Len(text) : text[i] \in DOMAIN Digit
    /\ Len(text) = 1 \/ text[1] # "0"

\* The stored cooking_time is the submitted text as the INTEGER column
\* converts it: the integer an integer literal denotes (which reads back as
\* the submitted text when that text is canonical), any other text unchanged.
StoredCookingTime(v, text) ==
    /\ v = IntegerAffinity(text)
    /\ CanonicalInteger(text) => v.type = "integer" /\ FormText(v) = text
    /\ ~IsIntegerLiteral(text) => v.type = "text" /\ v.text = text

\* The stored cooking_time reads back as exactly the submitted text.
ExactCookingTime(v, text) == FormText(v) = text

\* --------------------------------------------------------------------- C1
\* C1: a POST /recipes/r/delete of an existing recipe r answers 302 to
\* /all_recipes; afterwards r is absent, no ingredient row has recipe_id r,
\* every other recipe row and every ingredient row of another recipe is
\* unchanged, and a GET /recipes/r that follows answers 404.
C1_DeleteExisting ==
    [][(Answers("delete_recipe") /\ pending.path[2] \in DOMAIN Recipe) =>
        LET r == pending.path[2]
        IN  /\ RedirectsToList(resp')
            /\ r \notin DOMAIN Recipe'
            /\ \A i \in DOMAIN Ingredient' : Ingredient'[i].recipe_id # r
            /\ Recipe' = Restrict(Recipe, (DOMAIN Recipe) \ {r})
            /\ Ingredient' =
                  Restrict(Ingredient,
                           {i \in DOMAIN Ingredient : Ingredient[i].recipe_id # r})
            /\ \A out \in Handle(DB', GetRecipe(r), now') :
                  out.resp.status = 404 /\ out.db = DB']_vars

\* A recipe that had ingredients was deleted while another recipe, with its
\* ingredient, stays.
C1_Witness ==
    /\ Answered("delete_recipe")
    /\ handled.path[2] = 1
    /\ resp.status = 302
    /\ 2 \in DOMAIN Recipe
    /\ 3 \in DOMAIN Ingredient
    /\ 1 \notin DOMAIN Ingredient

\* --------------------------------------------------------------------- C2
\* C2 (as amended): a POST /recipes/r of an existing recipe r with a complete
\* form answers 302 to /all_recipes; afterwards r's recipe_name, ingredients
\* and instructions equal the submitted values and its cooking_time is the
\* submitted text as the INTEGER column converts it; r's recipe_id and
\* created_at and every other recipe row are unchanged.  No step modifies the
\* created_at of a recipe.
C2_UpdateExisting ==
    [][/\ (Answers("update_recipe") /\ pending.method = "POST"
             /\ pending.path[2] \in DOMAIN Recipe
             /\ FormKeys \subseteq DOMAIN pending.form) =>
            LET r == pending.path[2]
                f == pending.form
            IN  /\ RedirectsToList(resp')
                /\ DOMAIN Recipe' = DOMAIN Recipe
                /\ Recipe'[r].recipe_name = f.recipe_name
                /\ Recipe'[r].ingredients = f.ingredients
                /\ Recipe'[r].instructions = f.instructions
                /\ StoredCookingTime(Recipe'[r].cooking_time, f.cooking_time)
                /\ Recipe'[r].recipe_id = Recipe[r].recipe_id
                /\ Recipe'[r].created_at = Recipe[r].created_at
                /\ \A o \in (DOMAIN Recipe) \ {r} : Recipe'[o] = Recipe[o]
       /\ \A r \in (DOMAIN Recipe) \cap (DOMAIN Recipe') :
            Recipe'[r].created_at = Recipe[r].created_at]_vars

\* A recipe created at second 0 was updated at second 1 with the form whose
\* cooking_time has a leading zero.
C2_Witness ==
    /\ Answered("update_recipe")
    /\ handled.method = "POST"
    /\ handled.form = Form2
    /\ resp.status = 302
    /\ now = 1
    /\ Recipe[handled.path[2]].created_at = 0
    /\ Recipe[handled.path[2]].recipe_name = Form2.recipe_name

\* C2 as stated: after the update the four fields equal the submitted values.
C2_Original ==
    [][(Answers("update_recipe") /\ pending.method = "POST"
          /\ pending.path[2] \in DOMAIN Recipe
          /\ FormKeys \subseteq DOMAIN pending.form) =>
        LET r == pending.path[2]
            f == pending.form
        IN  /\ RedirectsToList(resp')
            /\ Recipe'[r].recipe_name = f.recipe_name
            /\ Recipe'[r].ingredients = f.ingredients
            /\ Recipe'[r].instructions = f.instructions
            /\ ExactCookingTime(Recipe'[r].cooking_time, f.cooking_time)
            /\ Recipe'[r].recipe_id = Recipe[r].recipe_id
            /\ Recipe'[r].created_at = Recipe[r].created_at
            /\ \A o \in (DOMAIN Recipe) \ {r} : Recipe'[o] = Recipe[o]]_vars

\* --------------------------------------------------------------------- C3
\* C3: for a recipe_id absent from the recipe table, GET /recipes/<id>,
\* POST /recipes/<id> (whatever its form) and POST /recipes/<id>/delete
\* answer 404 with the JSON body {"error": "Recipe not found"} and leave
\* every table unchanged.
C3_NotFound ==
    [][((Answers("update_recipe") \/ Answers("delete_recipe"))
          /\ pending.path[2] \notin DOMAIN Recipe) =>
        /\ resp'.status = 404
        /\ resp'.mimetype = "application/json"
        /\ resp'.body = [error |-> "Recipe not found"]
        /\ UNCHANGED tables]_vars

\* An update of an absent recipe, with a form that lacks a key, was
\* answered 404.
C3_Witness ==
    /\ Answered("update_recipe")
    /\ handled.method = "POST"
    /\ handled.form \in IncompleteForms
    /\ handled.path[2] \notin DOMAIN Recipe
    /\ resp.status = 404

\* --------------------------------------------------------------------- C4
\* Recipe a was created before recipe b.  A new row gets a rowid above every
\* stored one, so among the stored recipes the later created has the larger
\* recipe_id.
CreatedBefore(a, b) == a < b

\* C4: a listing returns exactly the existing recipes, ordered by created_at
\* descending, and a recipe created later comes before one created earlier,
\* also when both have the same created_at.
C4_ListingNewestFirst ==
    (Answered("get_recipes") /\ resp.status = 200) =>
        LET l == resp.body.context.recipes
        IN  /\ Len(l) = Cardinality(DOMAIN Recipe)
            /\ {l[i] : i \in DOMAIN l} = {serialize(Recipe[r]) : r \in DOMAIN Recipe}
            /\ \A i, j \in DOMAIN l :
                  i < j => Recipe[l[i].recipe_id].created_at
                              >= Recipe[l[j].recipe_id].created_at
            /\ \A i, j \in DOMAIN l :
                  CreatedBefore(l[i].recipe_id, l[j].recipe_id) => j < i

\* --------------------------------------------------------------------- C5
\* C5 (as amended): a POST /recipes with a complete form answers 302 to the
\* recipe list and leaves exactly one more recipe row: its recipe_id is not
\* that of a recipe that existed, its recipe_name, ingredients and
\* instructions are the submitted ones, its cooking_time is the submitted
\* text as the INTEGER column converts it, its created_at is the time of the
\* insertion; the rows that existed are unchanged.
C5_CreateInsertsOne ==
    [][(Answers("create_recipe") /\ FormKeys \subseteq DOMAIN pending.form) =>
        LET f == pending.form
        IN  /\ RedirectsToList(resp')
            /\ Cardinality(DOMAIN Recipe') = Cardinality(DOMAIN Recipe) + 1
            /\ \E id \in (DOMAIN Recipe') \ (DOMAIN Recipe) :
                  /\ DOMAIN Recipe' = (DOMAIN Recipe) \cup {id}
                  /\ Recipe'[id].recipe_id = id
                  /\ Recipe'[id].recipe_name = f.recipe_name
                  /\ Recipe'[id].ingredients = f.ingredients
                  /\ Recipe'[id].instructions = f.instructions
                  /\ StoredCookingTime(Recipe'[id].cooking_time, f.cooking_time)
                  /\ Recipe'[id].created_at = now
            /\ \A o \in DOMAIN Recipe : Recipe'[o] = Recipe[o]]_vars

\* A second recipe was created at second 1 from the form whose cooking_time
\* has a leading zero.
C5_Witness ==
    /\ Answered("create_recipe")
    /\ handled.form = Form2
    /\ resp.status = 302
    /\ DOMAIN Recipe = {1, 2}
    /\ Recipe[2].created_at = 1
    /\ Recipe[2].cooking_time = [type |-> "integer", int |-> 45]

\* C5 as stated: the new row has the submitted four fields.
C5_Original ==
    [][(Answers("create_recipe") /\ FormKeys \subseteq DOMAIN pending.form) =>
        LET f == pending.form
        IN  /\ RedirectsToList(resp')
            /\ Cardinality(DOMAIN Recipe') = Cardinality(DOMAIN Recipe) + 1
            /\ \E id \in (DOMAIN Recipe') \ (DOMAIN Recipe) :
                  /\ Recipe'[id].recipe_name = f.recipe_name
                  /\ Recipe'[id].ingredients = f.ingredients
                  /\ Recipe'[id].instructions = f.instructions
                  /\ ExactCookingTime(Recipe'[id].cooking_time, f.cooking_time)
                  /\ Recipe'[id].created_at = now
            /\ \A o \in DOMAIN Recipe : Recipe'[o] = Recipe[o]]_vars

\* --------------------------------------------------------------------- C6
GetRecipesJson == Req("GET", <<"recipes">>, NoForm)

\* C6 (as amended): a GET request to /recipes answers 405, the path being
\* routed for POST only; the serialized form of every existing recipe, and
\* nothing else, is what GET /all_recipes renders, as HTML, with status 200.
C6_ListEndpoint ==
    /\ handled = GetRecipesJson => resp = MethodNotAllowed
    /\ Answered("get_recipes") =>
          /\ resp.status = 200
          /\ resp.mimetype = "text/html"
          /\ resp.body.template = "all_recipes.html"
          /\ {resp.body.context.recipes[i] : i \in DOMAIN resp.body.context.recipes}
                = {serialize(Recipe[r]) : r \in DOMAIN Recipe}

\* GET /recipes was answered while recipes exist.
C6_Witness ==
    /\ handled = GetRecipesJson
    /\ resp.status = 405
    /\ DOMAIN Recipe = {1, 2}

\* C6 as stated: GET /recipes answers 200 with a JSON array holding the
\* serialized form of every existing recipe.
C6_Original ==
    handled = GetRecipesJson =>
        /\ resp.status = 200
        /\ resp.mimetype = "application/json"
        /\ \A r \in DOMAIN Recipe :
              \E i \in DOMAIN resp.body : resp.body[i] = serialize(Recipe[r])

\* --------------------------------------------------------------------- C7
\* C7: in every state the create, update and delete requests reach from one
\* where it holds, every ingredient row's recipe_id is the recipe_id of an
\* existing recipe row.
C7_IngredientHasRecipe ==
    \A i \in DOMAIN Ingredient : Ingredient[i].recipe_id \in DOMAIN Recipe

\* Recipe 1 was deleted with its two ingredient rows; recipe 2 and its
\* ingredient row stay.
C7_Witness ==
    /\ Answered("delete_recipe")
    /\ resp.status = 302
    /\ DOMAIN Recipe = {2}
    /\ DOMAIN Ingredient = {3}

\* --------------------------------------------------------------------- C8
\* C8: in every state the create, update and delete requests reach from one
\* where it holds, every nutrition_detail row's ingredient_id is the
\* ingredient_id of an existing ingredient row.
C8_DetailHasIngredient ==
    \A d \in DOMAIN NutritionDetail :
        NutritionDetail[d].ingredient_id \in DOMAIN Ingredient

\* --------------------------------------------------------------------- C9
\* What GET /recipes/r renders: the stored row, serialized.
Rendered(db, r) ==
    {out.resp.body.context.recipe : out \in Handle(db, GetRecipe(r), 0)}

\* The serialized row carries the form's recipe_name, ingredients and
\* instructions, and as cooking_time the value cooking(stored, submitted)
\* accepts.
RoundTrip(s, f, cooking(_, _)) ==
    /\ s.recipe_name = f.recipe_name
    /\ s.ingredients = f.ingredients
    /\ s.instructions = f.instructions
    /\ cooking(s.cooking_time, f.cooking_time)

\* The recipe a step has created or updated from the pending form.
Written ==
    IF Dispatch(pending) = "create_recipe"
    THEN (DOMAIN Recipe') \ (DOMAIN Recipe)
    ELSE {pending.path[2]} \cap (DOMAIN Recipe')

WritesForm ==
    /\ Answers("create_recipe") \/ (Answers("update_recipe") /\ pending.method = "POST")
    /\ resp'.status = 302

Deleting(p) ==
    /\ pc[p] \in {"ingredients_deleted", "flushed"}
    /\ Dispatch(sess[p].req) = "delete_recipe"

\* C10: under any interleaving of concurrent requests the two steps of a
\* delete become visible together at commit: no step takes ingredient rows
\* out of the committed database and leaves their recipe in it, and while a
\* delete of recipe r is uncommitted the committed database, which is all
\* another request reads, still holds every ingredient row the delete has
\* removed.
C10_DeleteVisibleAtCommit ==
    [][/\ \A i \in (DOMAIN Ingredient) \ (DOMAIN Ingredient') :
             Ingredient[i].recipe_id \notin DOMAIN Recipe'
       /\ \A p \in Procs :
             (Deleting(p)' /\ sess'[p].req.path[2] \in DOMAIN Recipe') =>
                 \A i \in sess'[p].removed : i \in DOMAIN Ingredient']_vars

\* A delete of a recipe has removed its ingredient rows and flushed the
\* removal of the recipe row, uncommitted, while another thread has loaded a
\* recipe for a request of its own.
C10_Witness ==
    \E p, q \in Procs :
        /\ p # q
        /\ Deleting(p)
        /\ pc[p] = "flushed"
        /\ sess[p].removed # {}
        /\ sess[p].req.path[2] \notin DOMAIN sess[p].db.Recipe
        /\ sess[p].req.path[2] \in DOMAIN Recipe
        /\ pc[q] = "loaded"

\* -------------------------------------------------------------------- C11
\* The step that answers a POST /recipes, or a POST /recipes/r of an existing
\* recipe r, whose form lacks one of the four keys.
AnswersMissingKey ==
    /\ \/ Answers("create_recipe")
       \/ /\ Answers("update_recipe")
          /\ pending.method = "POST"
          /\ pending.path[2] \in DOMAIN Recipe
    /\ \E k \in FormKeys : DOMAIN pending.form = FormKeys \ {k}

\* C11 (as amended): a POST /recipes, or a POST /recipes/<id> of an existing
\* recipe, whose form lacks any one of the four keys ends in an error answer,
\* an unhandled server error in debug mode and 400 Bad Request out of it, and
\* leaves the stored data unchanged: no recipe row is inserted and no field
\* of the target recipe changes, also when keys ahead of the missing one were
\* assigned on the loaded object.
C11_MissingKey ==
    [][AnswersMissingKey =>
        /\ resp' = IF debug THEN InternalServerError ELSE BadRequest
        /\ UNCHANGED tables]_vars

\* In debug mode an update of an existing recipe whose form lacks
\* cooking_time was answered by a server error: the three keys ahead were
\* assigned on the loaded object, and the stored row has none of them.
C11_Witness ==
    /\ debug
    /\ Answered("update_recipe")
    /\ handled.method = "POST"
    /\ handled.form = Without(Form2, "cooking_time")
    /\ handled.path[2] \in DOMAIN Recipe
    /\ resp = InternalServerError
    /\ AssignedKeys(handled.form) = {"recipe_name", "ingredients", "instructions"}
    /\ \A k \in AssignedKeys(handled.form) :
          /\ PartialAssign(Recipe[handled.path[2]], handled.form)[k] = Form2[k]
          /\ Recipe[handled.path[2]][k] # Form2[k]

\* C11 as stated: the request ends in an unhandled server error and the
\* stored data is unchanged.
C11_Original ==
    [][AnswersMissingKey =>
        /\ resp' = InternalServerError
        /\ UNCHANGED tables]_vars

\* -------------------------------------------------------------------- C12
\* C12: in every state the create, update and delete requests reach from one
\* where both hold, every post row with a recipe_id refers to an existing
\* recipe row and no two post rows have the same recipe_id; so once recipe r
\* is deleted no post row has recipe_id r.
C12_PostHasRecipe ==
    /\ \A p \in DOMAIN Post : Post[p].recipe_id \subseteq DOMAIN Recipe
    /\ \A p, q \in DOMAIN Post :
          (p # q /\ Post[p].recipe_id # NULL) => Post[p].recipe_id # Post[q].recipe_id

\* Both recipes that had a post were deleted, and a recipe created afterwards
\* has the rowid of the first: its former post, like the other's, has no
\* recipe_id.
C12_Witness ==
    /\ Answered("create_recipe")
    /\ resp.status = 302
    /\ DOMAIN Recipe = {1}
    /\ DOMAIN Post = {1, 2, 3}
    /\ Post[1].recipe_id = NULL
    /\ Post[3].recipe_id = NULL

====
